---------------------------- MODULE Spec2Model ----------------------------
(***************************************************************************)
(* A model of the bitmosaic embedding / recovery core:                     *)
(*   matrix.py      Point, V2Component, V2Point, Matrix (toroidal grid)    *)
(*   secret.py      Secret, Recovery, Vault                                *)
(*   data_domain.py Domain.generate_domain, contains                       *)
(*   mosaic.py      Tessera, Mosaic.hide_secrets, recover_secret           *)
(*   filler.py      RecoveryFiller (grid reconstruction from text)         *)
(***************************************************************************)
EXTENDS Integers, Sequences, FiniteSets, TLC

VARIABLES
    cols, rows,      \* Matrix._cols, Matrix._rows
    matrix,          \* Matrix._matrix : cell -> item or None
    empty,           \* Matrix.__empty : list of Points
    last,            \* the last Matrix operation and its arguments
    prev,            \* the Matrix fields before the last operation
    nops,            \* number of Matrix operations performed
    content,         \* Vault._content : list of Secrets
    vlast,           \* the last Vault operation, its argument and its outcome
    vprev,           \* Vault._content before the last Vault operation
    domains,         \* Domain._domains : list of sources
    domain_data,     \* Domain._data : the materialized pool
    gen,             \* Domain.generate_domain: its arguments and loop position
    recoveries,      \* Mosaic.__recoveries : list of Recovery
    pc,              \* position of the caller in Mosaic.hide_secrets and after it
    hs,              \* locals of hide_secrets and of the methods it calls
    err,             \* the exception the last Mosaic call raised, or "none"
    fake_components, \* V2Component.__fake_components (class attribute)
    text,            \* str(mosaic) as persisted by the caller
    mosaic2,         \* the Mosaic built by Mosaic.from_recovery
    rec,             \* the Recovery handed to recover_secret, after the call
    call             \* a call of a function on its own: its arguments and outcome

matrixVars == <<cols, rows, matrix, empty, last, prev, nops>>

vaultVars == <<content, vlast, vprev>>

domainVars == <<domains, domain_data, gen>>

mosaicVars == <<recoveries, pc, hs, err, fake_components, text, mosaic2, rec>>

callVars == <<call>>

nonMatrixVars == <<vaultVars, domainVars, mosaicVars, callVars>>

nonVaultVars == <<matrixVars, domainVars, mosaicVars, callVars>>

nonDomainVars == <<matrixVars, vaultVars, mosaicVars, callVars>>

vars == <<cols, rows, matrix, empty, last, prev, nops, content, vlast, vprev,
          domains, domain_data, gen,
          recoveries, pc, hs, err, fake_components, text, mosaic2, rec, call>>

-----------------------------------------------------------------------------
(* Bounds *)

MaxCols == 2
MaxRows == 2
MaxOps == 2

-----------------------------------------------------------------------------
(* matrix.py : Point *)

Point(x, y) == [x |-> x, y |-> y]

PointAdd(p, q) == Point(p.x + q.x, p.y + q.y)

PointLe(p, q) == p.x <= q.x /\ p.y <= q.y

PointLt_x(p, q) == p.x < q.x

PointLt(p, q) == p.x < q.x /\ p.y < q.y

PointZero == Point(0, 0)

\* Python's None
None == [none |-> TRUE]

-----------------------------------------------------------------------------
(* Sequence helpers standing for Python list operations *)

\* x in list
InList(x, s) == \E i \in 1..Len(s) : s[i] = x

\* index of the first element equal to x (list.index)
FirstIndex(x, s) == CHOOSE i \in 1..Len(s) : s[i] = x /\ \A j \in 1..(i-1) : s[j] # x

\* list.remove(x): drops the first occurrence
ListRemove(x, s) ==
    LET i == FirstIndex(x, s)
    IN  [j \in 1..(Len(s)-1) |-> IF j < i THEN s[j] ELSE s[j+1]]

-----------------------------------------------------------------------------
(* matrix.py : Matrix *)

Cells(c, r) == {Point(x, y) : x \in 0..(c-1), y \in 0..(r-1)}

\* row-major index (0-based) of a cell and back
CellIndex(p, c) == p.y * c + p.x

CellAt(k, c) == Point(k % c, k \div c)

\* Python's % with a positive divisor yields a value in 0..d-1, as TLA+'s %
normalize_point_bad(point, c, r) ==
    Point(IF point.x < 0 THEN -((-point.x) % c) ELSE point.x % c,
          IF point.y < 0 THEN -((-point.y) % r) ELSE point.y % r)

normalize_point(point, c, r) == Point(point.x % c, point.y % r)

same_point(p1, p2, c, r) == normalize_point(p1, c, r) = normalize_point(p2, c, r)

\* Matrix._create_matrix: rows of filler items, None cells appended to __empty
\* in row-major order
create_empty(filled, c, r) ==
    LET F[k \in 0..(c*r)] ==
            IF k = 0 THEN <<>>
            ELSE IF filled[CellAt(k-1, c)] = None
                 THEN Append(F[k-1], CellAt(k-1, c))
                 ELSE F[k-1]
    IN  F[c*r]

get_item_nowrap(mx, point, c, r) ==
    IF point \in Cells(c, r) THEN mx[point] ELSE None

get_item(mx, point, c, r) == mx[normalize_point(point, c, r)]

\* Matrix.set_item: returns the new (_matrix, __empty)
set_item_noguard(mx, em, item, point, replace, c, r) ==
    LET p == normalize_point(point, c, r)
    IN  [matrix |-> [mx EXCEPT ![p] = item],
         empty  |-> IF InList(p, em) THEN ListRemove(p, em) ELSE em]

set_item_keepempty(mx, em, item, point, replace, c, r) ==
    LET p == normalize_point(point, c, r)
    IN  IF ~replace /\ ~InList(p, em)
        THEN [matrix |-> mx, empty |-> em]
        ELSE [matrix |-> [mx EXCEPT ![p] = item], empty |-> em]

set_item_lost(mx, em, item, point, replace, c, r) ==
    [matrix |-> mx, empty |-> em]

set_item(mx, em, item, point, replace, c, r) ==
    LET p == normalize_point(point, c, r)
    IN  IF ~replace /\ ~InList(p, em)
        THEN [matrix |-> mx, empty |-> em]
        ELSE [matrix |-> [mx EXCEPT ![p] = item],
              empty  |-> IF InList(p, em) THEN ListRemove(p, em) ELSE em]

\* Matrix.remove_item
remove_item(mx, em, point, c, r) ==
    LET p == normalize_point(point, c, r)
    IN  IF InList(p, em)
        THEN [matrix |-> mx, empty |-> em]
        ELSE [matrix |-> [mx EXCEPT ![p] = None], empty |-> Append(em, p)]

-----------------------------------------------------------------------------
(* The Matrix driven directly by a caller: construction, then any sequence  *)
(* of set_item / remove_item / get_item.                                    *)

\* item values a caller may hand to set_item (item: object), None included
Objects == {[obj |-> 1], [obj |-> 2]}

ItemValues == Objects \cup {None}

\* raw coordinates handed to the Matrix: one step outside the grid on each side
RawCoords(n) == (0 - 1)..n

RawPoints(c, r) == {Point(x, y) : x \in RawCoords(c), y \in RawCoords(r)}

\* fillers handed to the constructor: NoneFiller, or a filler yielding an
\* object for every cell (as the colour and recovery fillers do)
NoneFillerItems(c, r) == [p \in Cells(c, r) |-> None]

FullFillerItems(c, r) == [p \in Cells(c, r) |-> [obj |-> 1 + ((p.x + p.y) % 2)]]

\* a Vault / a Domain nobody has touched
VaultIdle ==
    /\ content = <<>>
    /\ vlast = [op |-> "init"]
    /\ vprev = <<>>

DomainIdle ==
    /\ domains = <<>>
    /\ domain_data = <<>>
    /\ gen = [pc |-> "idle", ran |-> FALSE, total |-> 0, index |-> 0,
              sources |-> 0, before |-> 0]

\* locals of hide_secrets before the call
NoLocals ==
    [index |-> 0, tindex |-> 0, rand_min |-> 0, rand_max |-> 0, hidden |-> <<>>,
     point |-> [x |-> 0, y |-> 0], v2_point |-> None, fill_index |-> 0]

\* no Mosaic in use
MosaicQuiet ==
    /\ recoveries = <<>>
    /\ pc = "idle"
    /\ hs = NoLocals
    /\ err = "none"
    /\ fake_components = <<>>
    /\ text = <<>>
    /\ mosaic2 = [built |-> FALSE]
    /\ rec = [called |-> FALSE]

\* no Mosaic in use, no function called on its own
MosaicIdle ==
    /\ MosaicQuiet
    /\ call = [op |-> "none"]

MatrixInit ==
    /\ cols \in 1..MaxCols
    /\ rows \in 1..MaxRows
    /\ matrix \in {NoneFillerItems(cols, rows), FullFillerItems(cols, rows)}
    /\ empty = create_empty(matrix, cols, rows)
    /\ last = [op |-> "init"]
    /\ prev = [matrix |-> matrix, empty |-> empty]
    /\ nops = 0
    /\ VaultIdle
    /\ DomainIdle
    /\ MosaicIdle

SetItem ==
    /\ nops < MaxOps
    /\ \E item \in ItemValues, point \in RawPoints(cols, rows), replace \in BOOLEAN :
         LET res == set_item(matrix, empty, item, point, replace, cols, rows)
         IN  /\ matrix' = res.matrix
             /\ empty' = res.empty
             /\ last' = [op |-> "set", item |-> item, point |-> point,
                         replace |-> replace]
    /\ prev' = [matrix |-> matrix, empty |-> empty]
    /\ nops' = nops + 1
    /\ UNCHANGED <<cols, rows>>
    /\ UNCHANGED nonMatrixVars

RemoveItem ==
    /\ nops < MaxOps
    /\ \E point \in RawPoints(cols, rows) :
         LET res == remove_item(matrix, empty, point, cols, rows)
         IN  /\ matrix' = res.matrix
             /\ empty' = res.empty
             /\ last' = [op |-> "remove", point |-> point]
    /\ prev' = [matrix |-> matrix, empty |-> empty]
    /\ nops' = nops + 1
    /\ UNCHANGED <<cols, rows>>
    /\ UNCHANGED nonMatrixVars

GetItem ==
    /\ nops < MaxOps
    /\ \E point \in RawPoints(cols, rows) :
         last' = [op |-> "get", point |-> point,
                  result |-> get_item(matrix, point, cols, rows)]
    /\ prev' = [matrix |-> matrix, empty |-> empty]
    /\ nops' = nops + 1
    /\ UNCHANGED <<cols, rows, matrix, empty>>
    /\ UNCHANGED nonMatrixVars

MatrixNext == SetItem \/ RemoveItem \/ GetItem

SpecMatrix == MatrixInit /\ [][MatrixNext]_vars

-----------------------------------------------------------------------------
(* Claims about the Matrix (checked under SpecMatrix) *)

\* the cell the last operation addressed
LastCell == normalize_point(last.point, cols, rows)

\* C5: a cell is in the grid's unfilled set exactly when it holds no element,
\* after construction and any sequence of set / remove / get with any item.
C5_EmptyConsistent ==
    \A p \in Cells(cols, rows) : InList(p, empty) <=> matrix[p] = None

\* C6: normalize lands inside the grid, is idempotent, and get and set on a raw
\* position (negative or beyond the size) address the cell of its normalization.
C6_WrapInvariant ==
    /\ \A p \in RawPoints(cols, rows) :
         LET n == normalize_point(p, cols, rows)
         IN  /\ n.x \in 0..(cols-1)
             /\ n.y \in 0..(rows-1)
             /\ normalize_point(n, cols, rows) = n
             /\ get_item(matrix, p, cols, rows) = matrix[n]
             /\ \A item \in ItemValues, replace \in BOOLEAN :
                  set_item(matrix, empty, item, p, replace, cols, rows)
                    = set_item(matrix, empty, item, n, replace, cols, rows)
    /\ last.op = "get" => last.result = prev.matrix[LastCell]
    /\ last.op = "set" =>
         \A q \in Cells(cols, rows) : q # LastCell => matrix[q] = prev.matrix[q]

C6_Witness ==
    /\ last.op = "set"
    /\ last.point.x < 0
    /\ last.point.y >= rows
    /\ last.item # None
    /\ matrix[LastCell] = last.item
    /\ prev.matrix[LastCell] # last.item

\* C7: set with replace=false on a cell that is not in the unfilled set changes
\* nothing; set on a cell of the unfilled set, or with replace=true, makes
\* get(p) return the item and changes no other cell.
C7_SetFrame ==
    last.op = "set" =>
        IF ~last.replace /\ ~InList(LastCell, prev.empty)
        THEN /\ matrix = prev.matrix
             /\ empty = prev.empty
        ELSE /\ get_item(matrix, last.point, cols, rows) = last.item
             /\ \A q \in Cells(cols, rows) :
                  q # LastCell => matrix[q] = prev.matrix[q]

C7_Witness ==
    /\ last.op = "set"
    /\ ~last.replace
    /\ ~InList(LastCell, prev.empty)
    /\ prev.matrix[LastCell] # None
    /\ last.item # prev.matrix[LastCell]
    /\ nops = 2
    /\ matrix[LastCell] = prev.matrix[LastCell]

-----------------------------------------------------------------------------
(* matrix.py : V2Component, V2Point *)

LowerLetters == {"a", "b"}

UpperLetters == {"A", "B"}

\* str.lower / str.upper / str.islower on the labels of the model's alphabet
ToLower(c) == CASE c = "A" -> "a" [] c = "B" -> "b" [] OTHER -> c

ToUpper(c) == CASE c = "a" -> "A" [] c = "b" -> "B" [] OTHER -> c

\* the lowercase letters tokens are made of
TokenLetters == {"m", "y", "s", "x", "p"}

IsLower(c) == c \in LowerLetters \cup TokenLetters

\* V2Component.__init__: the label's case follows the sign of the value
V2Component_strict(label, value) ==
    [label |-> IF value > 0 THEN ToLower(label) ELSE ToUpper(label),
     value |-> value]

V2Component(label, value) ==
    [label |-> IF value >= 0 THEN ToLower(label) ELSE ToUpper(label),
     value |-> value]

\* V2Component.__eq__ : by label, case-insensitive
V2ComponentEq(a, b) == ToLower(a.label) = ToLower(b.label)

\* V2Component.in_set: the member of the set equal to self, or None
in_set(self, the_set) ==
    IF \E item \in the_set : V2ComponentEq(item, self)
    THEN CHOOSE item \in the_set : V2ComponentEq(item, self)
    ELSE None

V2Point(x, y) == [x |-> x, y |-> y]

\* V2Point.labels
labels(v) == <<v.x.label, v.y.label>>

\* V2Point.to_point
to_point(v) == Point(v.x.value, v.y.value)

-----------------------------------------------------------------------------
(* secret.py : Secret, Vault *)

\* data_type is the Python type of the data argument: "list", "NoneType", "str"
Secret(name, data_type, data, origin, components) ==
    [name |-> name, data_type |-> data_type, data |-> data, origin |-> origin,
     components |-> components]

\* Secret.is_complete
is_complete(s) ==
    /\ s.data_type = "list"
    /\ Len(s.data) > 0
    /\ s.origin # None
    /\ s.components # {}

\* Secret.__eq__: same name or same origin. Point.__eq__ reads other.x, so
\* comparing a Point origin with a None origin raises AttributeError.
SecretEq(self, other) ==
    IF self.name = other.name THEN "True"
    ELSE IF self.origin = None /\ other.origin = None THEN "True"
    ELSE IF self.origin = None \/ other.origin = None THEN "AttributeError"
    ELSE IF self.origin = other.origin THEN "True"
    ELSE "False"

\* secret in self._content: the list is scanned in order
InContent(secret, cont) ==
    LET Scan[i \in 1..(Len(cont)+1)] ==
            IF i > Len(cont) THEN "False"
            ELSE LET e == SecretEq(cont[i], secret)
                 IN  IF e = "False" THEN Scan[i+1] ELSE e
    IN  Scan[1]

\* self._content.remove(secret): drops the first element equal to secret
ContentRemove(secret, cont) ==
    LET i == CHOOSE k \in 1..Len(cont) :
                 /\ SecretEq(cont[k], secret) = "True"
                 /\ \A j \in 1..(k-1) : SecretEq(cont[j], secret) = "False"
    IN  [j \in 1..(Len(cont)-1) |-> IF j < i THEN cont[j] ELSE cont[j+1]]

\* Vault.add_secret
add_secret_nocheck(cont, secret) ==
    LET found == InContent(secret, cont)
    IN  IF found = "AttributeError"
        THEN [content |-> cont, result |-> "AttributeError"]
        ELSE IF found = "False"
        THEN [content |-> Append(cont, secret), result |-> "True"]
        ELSE [content |-> cont, result |-> "False"]

add_secret(cont, secret) ==
    LET found == InContent(secret, cont)
    IN  IF found = "AttributeError"
        THEN [content |-> cont, result |-> "AttributeError"]
        ELSE IF found = "False" /\ is_complete(secret)
        THEN [content |-> Append(cont, secret), result |-> "True"]
        ELSE [content |-> cont, result |-> "False"]

\* Vault.remove_secret
remove_secret(cont, secret) ==
    LET found == InContent(secret, cont)
    IN  IF found = "AttributeError"
        THEN [content |-> cont, result |-> "AttributeError"]
        ELSE IF found = "True" /\ is_complete(secret)
        THEN [content |-> ContentRemove(secret, cont), result |-> "True"]
        ELSE [content |-> cont, result |-> "False"]

-----------------------------------------------------------------------------
(* The Vault driven by a caller: add_secret / remove_secret with any Secret *)

SecretNames == {"n1", "n2", "n3"}

SecretOrigins == {None, Point(0, 0), Point(1, 0)}

SecretDatas == {[type |-> "list", data |-> <<"t">>],
                [type |-> "list", data |-> <<>>],
                [type |-> "NoneType", data |-> <<>>]}

SecretComponents == {{V2Component("a", 1)}, {}}

SecretPool ==
    {Secret(n, d.type, d.data, o, c) :
        n \in SecretNames, d \in SecretDatas, o \in SecretOrigins,
        c \in SecretComponents}

\* a 1x1 Matrix nobody has touched
MatrixIdle ==
    /\ cols = 1
    /\ rows = 1
    /\ matrix = NoneFillerItems(1, 1)
    /\ empty = create_empty(matrix, 1, 1)
    /\ last = [op |-> "init"]
    /\ prev = [matrix |-> matrix, empty |-> empty]
    /\ nops = 0

VaultInit ==
    /\ VaultIdle
    /\ MatrixIdle
    /\ DomainIdle
    /\ MosaicIdle

AddSecret ==
    /\ \E secret \in SecretPool :
         LET res == add_secret(content, secret)
         IN  /\ content' = res.content
             /\ vlast' = [op |-> "add", secret |-> secret, result |-> res.result]
    /\ vprev' = content
    /\ UNCHANGED nonVaultVars

RemoveSecret ==
    /\ \E secret \in SecretPool :
         LET res == remove_secret(content, secret)
         IN  /\ content' = res.content
             /\ vlast' = [op |-> "remove", secret |-> secret, result |-> res.result]
    /\ vprev' = content
    /\ UNCHANGED nonVaultVars

VaultNext == AddSecret \/ RemoveSecret

SpecVault == VaultInit /\ [][VaultNext]_vars

-----------------------------------------------------------------------------
(* Claims about the Vault (checked under SpecVault) *)

\* two secrets share a name or an origin
SharesNameOrOrigin(s, t) == s.name = t.name \/ s.origin = t.origin

\* The part of C9 about the stored secrets: only complete secrets, no two of
\* which share a name or an origin.
VaultContentInvariant ==
    /\ \A i \in 1..Len(content) : is_complete(content[i])
    /\ \A i, j \in 1..Len(content) :
         i # j => ~SharesNameOrOrigin(content[i], content[j])

\* s is a subsequence of t that keeps t's order
KeepsOrder(s, t) ==
    \/ s = t
    \/ \E k \in 1..Len(t) :
         s = [j \in 1..(Len(t)-1) |-> IF j < k THEN t[j] ELSE t[j+1]]

\* C9: the vault holds only complete secrets, no two of which share a name or
\* an origin, in insertion order; add_secret returns false and leaves the vault
\* unchanged when the secret is incomplete or shares a name or an origin with a
\* stored secret.
C9_VaultInvariant ==
    /\ VaultContentInvariant
    /\ vlast.op = "add" /\ vlast.result = "True" =>
         content = Append(vprev, vlast.secret)
    /\ vlast.op = "remove" => KeepsOrder(content, vprev)
    /\ (/\ vlast.op = "add"
        /\ \/ ~is_complete(vlast.secret)
           \/ \E i \in 1..Len(vprev) : SharesNameOrOrigin(vprev[i], vlast.secret))
       => (vlast.result = "False" /\ content = vprev)

-----------------------------------------------------------------------------
(* data_domain.py : DictionaryDomain, RegexDomain, Domain *)

\* Tokens are strings, modelled as sequences of characters.
TokMy == <<"m", "y">>

TokS == <<"s">>

TokX == <<"x">>

\* a token holding the field separator of the persisted text
TokBar == <<"p", "|">>

\* the characters [a-zA-Z] of the model
LetterChars == TokenLetters \cup LowerLetters \cup UpperLetters

\* re.match for the two patterns of the model: "letters" is ^[a-zA-Z]+$,
\* "any" is .* (matches every string)
RegexMatch(regex, item) ==
    IF regex = "letters"
    THEN Len(item) > 0 /\ \A i \in 1..Len(item) : item[i] \in LetterChars
    ELSE TRUE

\* DictionaryDomain: the lines of a word file; RegexDomain: a pattern
DictionaryDomain(words) == [kind |-> "dict", words |-> words]

RegexDomain(regex) == [kind |-> "regex", regex |-> regex]

\* DictionaryDomain.__eq__ (same set of entries) / RegexDomain.__eq__ (same
\* pattern); sources of different types are unequal
DomainEq(a, b) ==
    /\ a.kind = b.kind
    /\ IF a.kind = "dict"
       THEN {a.words[i] : i \in 1..Len(a.words)} = {b.words[i] : i \in 1..Len(b.words)}
       ELSE a.regex = b.regex

\* DictionaryDomain.contains / RegexDomain.contains (NFD normalisation is the
\* identity on the model's ASCII tokens)
SourceContains(d, item) ==
    IF d.kind = "dict"
    THEN \E i \in 1..Len(d.words) : d.words[i] = item
    ELSE RegexMatch(d.regex, item)

\* the strings a source's random() draws from: the entries of a dictionary,
\* strings matching the pattern for a regex (Xeger)
SourceSample(d) ==
    IF d.kind = "dict" THEN {d.words[i] : i \in 1..Len(d.words)}
    ELSE IF d.regex = "letters" THEN {TokX}
    ELSE {TokX, TokBar}

\* DictionaryDomain.random / RegexDomain.random: every list of count items
source_random(d, count) == [1..count -> SourceSample(d)]

\* Domain.add
domain_add(doms, d) ==
    IF \E i \in 1..Len(doms) : DomainEq(doms[i], d) THEN doms ELSE Append(doms, d)

\* Domain.contains
domain_contains_pool(dat, doms, item) == InList(item, dat)

domain_contains(dat, doms, item) ==
    \/ InList(item, dat)
    \/ \E i \in 1..Len(doms) : SourceContains(doms[i], item)

\* random.shuffle: every order of the list
Shuffles(s) ==
    IF Len(s) = 0 THEN {s}
    ELSE {[i \in 1..Len(s) |-> s[p[i]]] : p \in Permutations(1..Len(s))}

\* Python 3 round(a / b) for a >= 0, b > 0: halves go to the even neighbour
PyRound(a, b) ==
    LET q == a \div b
        r2 == 2 * (a % b)
    IN  IF r2 < b THEN q
        ELSE IF r2 > b THEN q + 1
        ELSE IF q % 2 = 0 THEN q ELSE q + 1

\* generate_domain, one loop iteration: the values number_of_items can take
number_of_items_total(total_items, drawn, index, count) ==
    LET remaining_items == total_items - drawn
    IN  IF index < count - 1
        THEN LET min_items == PyRound(remaining_items, count)
             IN  {n \in min_items..remaining_items :
                    \E max_items \in min_items..remaining_items : n <= max_items}
        ELSE {total_items}

number_of_items(total_items, drawn, index, count) ==
    LET remaining_items == total_items - drawn
    IN  IF index < count - 1
        THEN LET min_items == PyRound(remaining_items, count)
             IN  {n \in min_items..remaining_items :
                    \E max_items \in min_items..remaining_items : n <= max_items}
        ELSE {remaining_items}

-----------------------------------------------------------------------------
(* The Domain driven by a caller: add sources, generate_domain(total_items) *)

MaxTotal == 3
MaxSources == 2

SourcePool == {DictionaryDomain(<<TokMy, TokS>>), RegexDomain("letters"),
               DictionaryDomain(<<TokS, TokMy, TokS>>), RegexDomain("any")}

DomainInit ==
    /\ DomainIdle
    /\ MatrixIdle
    /\ VaultIdle
    /\ MosaicIdle

DomainAdd ==
    /\ gen.pc = "idle"
    /\ Len(domains) < MaxSources
    /\ \E d \in SourcePool : domains' = domain_add(domains, d)
    /\ UNCHANGED <<domain_data, gen>>
    /\ UNCHANGED nonDomainVars

\* generate_domain up to the loop: the pool is reset, the sources shuffled
GenerateStart ==
    /\ gen.pc = "idle"
    /\ \E total_items \in 0..MaxTotal :
         gen' = [pc |-> "loop", ran |-> FALSE, total |-> total_items, index |-> 0,
                 sources |-> Len(domains), before |-> Len(domain_data)]
    /\ domain_data' = <<>>
    /\ domains' \in Shuffles(domains)
    /\ UNCHANGED nonDomainVars

\* one iteration of the loop over the sources
GenerateStep ==
    /\ gen.pc = "loop"
    /\ gen.index < Len(domains)
    /\ \E n \in number_of_items(gen.total, Len(domain_data), gen.index, Len(domains)) :
         \E random_items \in source_random(domains[gen.index + 1], n) :
            domain_data' = domain_data \o random_items
    /\ gen' = [gen EXCEPT !.index = gen.index + 1]
    /\ UNCHANGED domains
    /\ UNCHANGED nonDomainVars

\* after the loop: the pool is shuffled and generate_domain returns
GenerateFinish ==
    /\ gen.pc = "loop"
    /\ gen.index = Len(domains)
    /\ domain_data' \in Shuffles(domain_data)
    /\ gen' = [gen EXCEPT !.pc = "idle", !.ran = TRUE]
    /\ UNCHANGED domains
    /\ UNCHANGED nonDomainVars

DomainNext == DomainAdd \/ GenerateStart \/ GenerateStep \/ GenerateFinish

SpecDomain == DomainInit /\ [][DomainNext]_vars

-----------------------------------------------------------------------------
(* Claims about the Domain (checked under SpecDomain) *)

\* C10: generate(N) on a Domain with at least one source discards the previous
\* pool and leaves a pool of exactly N tokens, whatever counts are drawn.
C10_PoolTotal ==
    (gen.pc = "idle" /\ gen.ran /\ gen.sources >= 1) =>
        Len(domain_data) = gen.total

C10_Witness ==
    /\ gen.pc = "idle"
    /\ gen.ran
    /\ gen.sources >= 2
    /\ gen.before > 0
    /\ gen.total > 0
    /\ gen.before # gen.total
    /\ Len(domain_data) = gen.total
    /\ \E i, j \in 1..Len(domain_data) : domain_data[i] # domain_data[j]

-----------------------------------------------------------------------------
(* mosaic.py : Tessera; secret.py : Recovery *)

Tessera(position, dat, v2_point) ==
    [position |-> position, data |-> dat, v2_point |-> v2_point]

\* Tessera.next
tessera_next_swapped(t) ==
    PointAdd(t.position, Point(t.v2_point.y.value, t.v2_point.x.value))

tessera_next(t) == PointAdd(t.position, to_point(t.v2_point))

\* Tessera.__str__ : "<data><labels>|"
tessera_str(t) == t.data \o labels(t.v2_point) \o <<"|">>

\* a slot of Recovery.data that holds None
NoToken == <<"None">>

\* Recovery.__init__ : data is [None] * length
Recovery_swapped(name, origin, components, c, r, length) ==
    [name |-> name, origin |-> origin, components |-> components,
     cols |-> r, rows |-> c, data |-> [i \in 1..length |-> NoToken]]

Recovery(name, origin, components, c, r, length) ==
    [name |-> name, origin |-> origin, components |-> components,
     cols |-> c, rows |-> r, data |-> [i \in 1..length |-> NoToken]]

-----------------------------------------------------------------------------
(* mosaic.py : Mosaic.hide_secrets *)

\* the model's stand-in for the 100 of randbelow(100) / randint(rand_min, 100)
RandBound == 2

\* the model's stand-in for the 10 of random.randint(-10, 10)
FakeMax == 1

\* the letters a..z of the model, in the order of __init_fake_components
LetterSeq == <<"a", "b">>

\* the signs __v2_point can draw: -1 only when min_value < randbelow < max_value
Signs(min_value, max_value) ==
    {1} \cup (IF \E r \in 0..(RandBound-1) : min_value < r /\ r < max_value
              THEN {-1} ELSE {})

\* the V2Points one iteration of the loop in __v2_point can build
Candidates(secret, min_value, max_value) ==
    {V2Point(V2Component(v1.label, v1.value * sx),
             V2Component(v2.label, v2.value * sy)) :
        v1 \in secret.components, v2 \in secret.components,
        sx \in Signs(min_value, max_value), sy \in Signs(min_value, max_value)}

\* the exit test of the loop in __v2_point
v2_accepted_noself(mx, v2_point, point, c, r) ==
    LET empty_destination_point == PointAdd(to_point(v2_point), point)
    IN  get_item(mx, empty_destination_point, c, r) = None

v2_accepted_anydest(mx, v2_point, point, c, r) ==
    LET empty_destination_point == PointAdd(to_point(v2_point), point)
    IN  ~same_point(empty_destination_point, point, c, r)

v2_accepted(mx, v2_point, point, c, r) ==
    LET empty_destination_point == PointAdd(to_point(v2_point), point)
    IN  /\ get_item(mx, empty_destination_point, c, r) = None
        /\ ~same_point(empty_destination_point, point, c, r)

\* V2Component.__init_fake_components: one component per letter, random value
FakeCaches ==
    {[i \in 1..Len(LetterSeq) |-> V2Component(LetterSeq[i], val[i])] :
        val \in [1..Len(LetterSeq) -> (0 - FakeMax)..FakeMax]}

\* V2Point.random_fake on an initialised cache
random_fake(cache) ==
    {V2Point(cache[i], cache[j]) : i \in 1..Len(cache), j \in 1..Len(cache)}

Raise(exception) ==
    /\ pc' = "raised"
    /\ err' = exception

\* hide_secrets up to the loop over the vault
HideStart ==
    /\ pc = "idle"
    /\ IF Len(content) = 0
       THEN /\ Raise("IncompleteSecretException")
            /\ UNCHANGED hs
       ELSE /\ pc' = "secret"
            /\ hs' = NoLocals
            /\ UNCHANGED err
    /\ UNCHANGED <<recoveries, fake_components, text, mosaic2, rec>>
    /\ UNCHANGED <<matrixVars, vaultVars, domainVars, callVars>>

\* the head of one iteration of the loop over the vault: the completeness
\* check, the Recovery appended, rand_min and rand_max drawn
HideSecret ==
    /\ pc = "secret"
    /\ hs.index < Len(content)
    /\ LET secret == content[hs.index + 1]
       IN  IF ~is_complete(secret)
           THEN /\ Raise("IncompleteSecretException")
                /\ UNCHANGED <<hs, recoveries>>
           ELSE /\ recoveries' = Append(recoveries,
                        Recovery(secret.name, secret.origin, secret.components,
                                 cols, rows, Len(secret.data)))
                /\ \E rand_min \in 0..(RandBound-1) :
                     \E rand_max \in rand_min..RandBound :
                        hs' = [hs EXCEPT !.rand_min = rand_min,
                                         !.rand_max = rand_max,
                                         !.hidden = <<>>,
                                         !.tindex = 0]
                /\ pc' = "token"
                /\ UNCHANGED err
    /\ UNCHANGED <<fake_components, text, mosaic2, rec>>
    /\ UNCHANGED <<matrixVars, vaultVars, domainVars, callVars>>

\* the collision test of hide_secrets: get_tessera(point) is not None
occupied_never(mx, point, c, r) == FALSE

occupied(mx, point, c, r) == get_item(mx, point, c, r) # None

\* the head of one iteration of the loop over secret.data: the domain check,
\* the target point, the collision check
HideToken ==
    /\ pc = "token"
    /\ hs.tindex < Len(content[hs.index + 1].data)
    /\ LET secret == content[hs.index + 1]
           value == secret.data[hs.tindex + 1]
           point == IF hs.tindex = 0
                    THEN secret.origin
                    ELSE PointAdd(hs.hidden[Len(hs.hidden)].position,
                                  to_point(hs.hidden[Len(hs.hidden)].v2_point))
       IN  IF ~domain_contains(domain_data, domains, value)
           THEN /\ Raise("ValueException")
                /\ UNCHANGED hs
           ELSE IF occupied(matrix, point, cols, rows)
           THEN /\ Raise("MosaicItemCollisionException")
                /\ hs' = [hs EXCEPT !.point = point]
           ELSE /\ pc' = "v2"
                /\ hs' = [hs EXCEPT !.point = point]
                /\ UNCHANGED err
    /\ UNCHANGED <<recoveries, fake_components, text, mosaic2, rec>>
    /\ UNCHANGED <<matrixVars, vaultVars, domainVars, callVars>>

\* one iteration of the loop in __v2_point up to its exit test: the components
\* and the signs are drawn, the local v2_point holds the candidate
V2Draw(v2_point) ==
    /\ pc = "v2"
    /\ v2_point \in Candidates(content[hs.index + 1], hs.rand_min, hs.rand_max)
    /\ hs' = [hs EXCEPT !.v2_point = v2_point]
    /\ pc' = "v2test"
    /\ UNCHANGED <<recoveries, err, fake_components, text, mosaic2, rec>>
    /\ UNCHANGED <<matrixVars, vaultVars, domainVars, callVars>>

\* the candidate fails the exit test: the loop goes round
V2Reject ==
    /\ pc = "v2test"
    /\ ~v2_accepted(matrix, hs.v2_point, hs.point, cols, rows)
    /\ pc' = "v2"
    /\ UNCHANGED <<recoveries, hs, err, fake_components, text, mosaic2, rec>>
    /\ UNCHANGED <<matrixVars, vaultVars, domainVars, callVars>>

\* the candidate passes the exit test: the loop breaks, and the rest of the
\* body of the loop over secret.data: the Tessera is built and set
V2Accept ==
    /\ pc = "v2test"
    /\ v2_accepted(matrix, hs.v2_point, hs.point, cols, rows)
    /\ LET value == content[hs.index + 1].data[hs.tindex + 1]
           tessera == Tessera(normalize_point(hs.point, cols, rows), value,
                              hs.v2_point)
           res == set_item(matrix, empty, tessera, hs.point, FALSE, cols, rows)
       IN  /\ matrix' = res.matrix
           /\ empty' = res.empty
           /\ hs' = [hs EXCEPT !.hidden = Append(hs.hidden, tessera),
                               !.tindex = hs.tindex + 1,
                               !.v2_point = None]
    /\ pc' = "token"
    /\ UNCHANGED <<cols, rows, last, prev, nops>>
    /\ UNCHANGED <<recoveries, err, fake_components, text, mosaic2, rec>>
    /\ UNCHANGED <<vaultVars, domainVars, callVars>>

\* the loop over secret.data is exhausted: the next secret
HideSecretDone ==
    /\ pc = "token"
    /\ hs.tindex = Len(content[hs.index + 1].data)
    /\ pc' = "secret"
    /\ hs' = [NoLocals EXCEPT !.index = hs.index + 1]
    /\ UNCHANGED <<recoveries, err, fake_components, text, mosaic2, rec>>
    /\ UNCHANGED <<matrixVars, vaultVars, domainVars, callVars>>

\* the loop over the vault is exhausted: __complete_with_fake_data starts
HideFillStart ==
    /\ pc = "secret"
    /\ hs.index = Len(content)
    /\ pc' = "fill"
    /\ hs' = NoLocals
    /\ UNCHANGED <<recoveries, err, fake_components, text, mosaic2, rec>>
    /\ UNCHANGED <<matrixVars, vaultVars, domainVars, callVars>>

\* one cell of the double loop of __complete_with_fake_data; index counts
\* every cell; the first random_fake_component initialises the class's list
FillStep ==
    /\ pc = "fill"
    /\ hs.fill_index < cols * rows
    /\ LET point == CellAt(hs.fill_index, cols)
       IN  IF get_item(matrix, point, cols, rows) # None
           THEN /\ hs' = [hs EXCEPT !.index = hs.index + 1,
                                    !.fill_index = hs.fill_index + 1]
                /\ UNCHANGED <<matrix, empty, fake_components, pc, err>>
           ELSE IF hs.index >= Len(domain_data) /\ Len(domain_data) = 0
           THEN /\ Raise("IndexError")
                /\ UNCHANGED <<matrix, empty, fake_components, hs>>
           ELSE \E dat \in (IF hs.index < Len(domain_data)
                            THEN {domain_data[hs.index + 1]}
                            ELSE {domain_data[i] : i \in 1..Len(domain_data)}) :
                \E cache \in (IF Len(fake_components) = 0
                              THEN FakeCaches ELSE {fake_components}) :
                \E v2_point \in random_fake(cache) :
                  LET tessera == Tessera(normalize_point(point, cols, rows), dat,
                                         v2_point)
                      res == set_item(matrix, empty, tessera, point, FALSE,
                                      cols, rows)
                  IN  /\ matrix' = res.matrix
                      /\ empty' = res.empty
                      /\ fake_components' = cache
                      /\ hs' = [hs EXCEPT !.index = hs.index + 1,
                                          !.fill_index = hs.fill_index + 1]
                      /\ UNCHANGED <<pc, err>>
    /\ UNCHANGED <<cols, rows, last, prev, nops>>
    /\ UNCHANGED <<recoveries, text, mosaic2, rec>>
    /\ UNCHANGED <<vaultVars, domainVars, callVars>>

\* the double loop is exhausted: hide_secrets returns
HideReturn ==
    /\ pc = "fill"
    /\ hs.fill_index = cols * rows
    /\ pc' = "done"
    /\ hs' = NoLocals
    /\ UNCHANGED <<recoveries, err, fake_components, text, mosaic2, rec>>
    /\ UNCHANGED <<matrixVars, vaultVars, domainVars, callVars>>

-----------------------------------------------------------------------------
(* mosaic.py : Mosaic.recover_secret *)

RECURSIVE recover_loop(_, _, _, _, _, _)
\* the while loop of recover_secret; point is where the next tessera is read
\* reads counts the calls of get_tessera
recover_loop(mx, c, r, point, index, dat) ==
    IF index >= Len(dat)
    THEN [result |-> "returned", data |-> dat, reads |-> index]
    ELSE LET tessera == get_item(mx, point, c, r)
         IN  IF tessera = None
             THEN [result |-> "AttributeError", data |-> dat, reads |-> index + 1]
             ELSE recover_loop(mx, c, r, tessera_next(tessera), index + 1,
                               [dat EXCEPT ![index + 1] = tessera.data])

recover_secret(mx, c, r, recovery) ==
    IF ~(PointLe(PointZero, recovery.origin)
         /\ PointLt(recovery.origin, Point(c, r)))
    THEN [result |-> "ValueException", data |-> recovery.data, reads |-> 0]
    ELSE recover_loop(mx, c, r, recovery.origin, 0, recovery.data)

\* recover_secret on the mosaic hide_secrets filled, with one of its recoveries.
\* Recovery in memory and recovery from the text are explored apart: neither
\* changes the mosaic.
Recover ==
    /\ pc = "done"
    /\ ~rec.called
    /\ Len(text) = 0
    /\ \E i \in 1..Len(recoveries) :
         LET res == recover_secret(matrix, cols, rows, recoveries[i])
         IN  /\ rec' = [called |-> TRUE, which |-> i, result |-> res.result,
                        data |-> res.data]
             /\ recoveries' = [recoveries EXCEPT ![i].data = res.data]
    /\ UNCHANGED <<pc, hs, err, fake_components, text, mosaic2>>
    /\ UNCHANGED <<matrixVars, vaultVars, domainVars, callVars>>

-----------------------------------------------------------------------------
(* The persisted text: Matrix.__str__, Tessera.init_for_recovery,
   RecoveryFiller, Mosaic.from_recovery *)

\* str(None)
NoneStr == <<"N", "o", "n", "e">>

\* Matrix.__str__ : the items' strings, row by row
matrix_str(mx, c, r) ==
    LET F[k \in 0..(c*r)] ==
            IF k = 0 THEN <<>>
            ELSE F[k-1] \o (IF mx[CellAt(k-1, c)] = None THEN NoneStr
                            ELSE tessera_str(mx[CellAt(k-1, c)]))
    IN  F[c*r]

RECURSIVE split_from(_, _)
\* str.split("|"): cur is the piece being read
split_from(t, cur) ==
    IF Len(t) = 0 THEN <<cur>>
    ELSE IF Head(t) = "|" THEN <<cur>> \o split_from(Tail(t), <<>>)
    ELSE split_from(Tail(t), Append(cur, Head(t)))

split(t) == split_from(t, <<>>)

\* the model's stand-in for the 100 of max_value = random.randint(1, 100)
PlaceholderMax == 1

\* init_for_recovery, one component: the magnitude of the recovery's component
\* with that label, or a random one below bound; the label's case is the sign
recovered_component(label, components, randbelow) ==
    LET probe == V2Component(label, IF IsLower(label) THEN 1 ELSE -1)
        found == in_set(probe, components)
        sign  == IF IsLower(probe.label) THEN 1 ELSE -1
    IN  IF found = None
        THEN {V2Component(probe.label, v * sign) : v \in randbelow}
        ELSE {V2Component(probe.label, found.value * sign)}

\* secret = data[0:len(data) - 2]
field_secret_whole(dat) == dat

field_secret(dat) == SubSeq(dat, 1, Len(dat) - 2)

\* Tessera.init_for_recovery: every outcome, a Tessera or an exception
init_for_recovery(point, dat, components) ==
    IF Len(dat) < 2
    THEN {[raised |-> "IndexError"]}
    ELSE IF dat[Len(dat) - 1] \notin LetterChars \/ dat[Len(dat)] \notin LetterChars
    THEN {[raised |-> "InvalidComponentException"]}
    ELSE UNION {
           {Tessera(point, field_secret(dat), V2Point(first, second)) :
              first \in recovered_component(dat[Len(dat) - 1], components,
                                            0..(max_value - 1)),
              second \in recovered_component(dat[Len(dat)], components,
                                             0..max_value)} :
           max_value \in 1..PlaceholderMax}

RECURSIVE setup_matrix(_, _, _, _, _, _)
\* RecoveryFiller.__setup_matrix from cell index on: every list it can build;
\* an exception of init_for_recovery is swallowed and the previous tessera
\* appended again
setup_matrix(splitted_data, c, r, components, index, acc) ==
    IF index = c * r
    THEN {[raised |-> "none", items |-> acc]}
    ELSE IF index >= Len(splitted_data)
    THEN {[raised |-> "IndexError", items |-> acc]}
    ELSE UNION {
           IF "raised" \in DOMAIN o
           THEN IF index = 0
                THEN {[raised |-> "UnboundLocalError", items |-> acc]}
                ELSE setup_matrix(splitted_data, c, r, components, index + 1,
                                  Append(acc, acc[index]))
           ELSE setup_matrix(splitted_data, c, r, components, index + 1,
                             Append(acc, o)) :
           o \in init_for_recovery(Point(index % c, index \div c),
                                   splitted_data[index + 1], components)}

\* V2Component.components_from_string on the printed components
components_from_string(components) ==
    {V2Component(comp.label, IF comp.value < 0 THEN 0 - comp.value ELSE comp.value) :
        comp \in components}

\* Recovery.create_from_file on the file hide's Recovery was printed to
create_from_file(recovery) ==
    Recovery(recovery.name, recovery.origin,
             components_from_string(recovery.components),
             recovery.cols, recovery.rows, Len(recovery.data))

\* str(mosaic) is written out
Serialize ==
    /\ pc = "done"
    /\ ~rec.called
    /\ Len(text) = 0
    /\ text' = matrix_str(matrix, cols, rows)
    /\ UNCHANGED <<recoveries, pc, hs, err, fake_components, mosaic2, rec>>
    /\ UNCHANGED <<matrixVars, vaultVars, domainVars, callVars>>

\* Mosaic.from_recovery(text, recovery) with the recovery of one secret: the
\* RecoveryFiller is set up and the Matrix created from it
FromRecovery ==
    /\ pc = "done"
    /\ Len(text) > 0
    /\ ~mosaic2.built
    /\ \E i \in 1..Len(recoveries) :
         LET recovery == create_from_file(recoveries[i])
         IN  \E filler \in setup_matrix(split(text), recovery.cols, recovery.rows,
                                        recovery.components, 0, <<>>) :
               mosaic2' =
                 [built |-> TRUE, recovery |-> recovery, raised |-> filler.raised,
                  cols |-> recovery.cols, rows |-> recovery.rows,
                  matrix |-> IF filler.raised = "none"
                             THEN [p \in Cells(recovery.cols, recovery.rows) |->
                                     filler.items[CellIndex(p, recovery.cols) + 1]]
                             ELSE <<>>,
                  recovered |-> FALSE, result |-> "none", data |-> <<>>]
    /\ UNCHANGED <<recoveries, pc, hs, err, fake_components, text, rec>>
    /\ UNCHANGED <<matrixVars, vaultVars, domainVars, callVars>>

\* recover_secret on the Mosaic built from the text
RecoverText ==
    /\ mosaic2.built
    /\ mosaic2.raised = "none"
    /\ ~mosaic2.recovered
    /\ LET res == recover_secret(mosaic2.matrix, mosaic2.cols, mosaic2.rows,
                                 mosaic2.recovery)
       IN  mosaic2' = [mosaic2 EXCEPT !.recovered = TRUE, !.result = res.result,
                                      !.data = res.data,
                                      !.recovery.data = res.data]
    /\ UNCHANGED <<recoveries, pc, hs, err, fake_components, text, rec>>
    /\ UNCHANGED <<matrixVars, vaultVars, domainVars, callVars>>

-----------------------------------------------------------------------------
(* A Mosaic driven as bitmosaic.py drives it: a Domain with one source and a
   generated pool, a Vault built by add_secret, hide_secrets, then recovery *)

\* the grids of the model: cols, rows
GridSizes == {<<2, 2>>, <<3, 1>>}

SecretMyS ==
    Secret("n1", "list", <<TokMy, TokS>>, Point(0, 0),
           {V2Component("a", 1), V2Component("b", 2)})

SecretS ==
    Secret("n2", "list", <<TokS>>, Point(1, 0), {V2Component("a", 1)})

SecretBar ==
    Secret("n3", "list", <<TokS, TokBar>>, Point(0, 0), {V2Component("a", 1)})

\* the vaults of the model, each one add_secret can build
MosaicVaults ==
    {<<SecretMyS>>, <<SecretMyS, SecretS>>, <<SecretBar>>}

\* the V2Points the loop of __v2_point can draw for the vaults of the model
AllV2Points ==
    UNION {UNION {Candidates(vault[k], 0, RandBound) : k \in 1..Len(vault)} :
             vault \in MosaicVaults}

MosaicSources == {RegexDomain("letters"), RegexDomain("any")}

\* the pools of the model: never generated, or generate_domain(cols * rows)
\* drawing the string "x" each time
MosaicPools(d, n) ==
    {<<>>} \cup {[i \in 1..n |-> t] : t \in SourceSample(d) \cap {TokX}}

MosaicInit ==
    /\ \E g \in GridSizes : cols = g[1] /\ rows = g[2]
    /\ matrix = NoneFillerItems(cols, rows)
    /\ empty = create_empty(matrix, cols, rows)
    /\ last = [op |-> "init"]
    /\ prev = [matrix |-> matrix, empty |-> empty]
    /\ nops = 0
    /\ content \in MosaicVaults
    /\ vlast = [op |-> "init"]
    /\ vprev = <<>>
    /\ \E d \in MosaicSources :
         /\ domains = <<d>>
         /\ domain_data \in MosaicPools(d, cols * rows)
    /\ gen = [pc |-> "idle", ran |-> Len(domain_data) > 0,
              total |-> Len(domain_data), index |-> IF Len(domain_data) > 0 THEN 1 ELSE 0,
              sources |-> IF Len(domain_data) > 0 THEN 1 ELSE 0, before |-> 0]
    /\ MosaicIdle

MosaicNext ==
    \/ HideStart
    \/ HideSecret
    \/ HideToken
    \/ \E v2_point \in AllV2Points : V2Draw(v2_point)
    \/ V2Reject
    \/ V2Accept
    \/ HideSecretDone
    \/ HideFillStart
    \/ FillStep
    \/ HideReturn
    \/ Recover
    \/ Serialize
    \/ FromRecovery
    \/ RecoverText

SpecMosaic == MosaicInit /\ [][MosaicNext]_vars

-----------------------------------------------------------------------------
(* Claims about the Mosaic (checked under SpecMosaic) *)

IsTessera(item) == item # None /\ "v2_point" \in DOMAIN item

InsideGrid(p) == PointLe(PointZero, p) /\ PointLt(p, Point(cols, rows))

\* the cell of the tessera holding token k (1-based) of the secret hidden
\* from origin, following the step vectors stored in the grid
RECURSIVE SecretCell(_, _)
SecretCell(origin, k) ==
    IF k = 1 THEN normalize_point(origin, cols, rows)
    ELSE normalize_point(tessera_next(matrix[SecretCell(origin, k - 1)]), cols, rows)

\* C2: after hide succeeds on a vault whose origins lie inside the grid,
\* recover on the same grid with the descriptor of any secret of the vault
\* returns exactly that secret's tokens, in order.
C2_MemoryRoundTrip ==
    (/\ pc = "done"
     /\ rec.called
     /\ \A i \in 1..Len(content) : InsideGrid(content[i].origin))
    => /\ rec.result = "returned"
       /\ rec.data = content[rec.which].data
       /\ recoveries[rec.which].data = content[rec.which].data

C2_Witness ==
    /\ pc = "done"
    /\ rec.called
    /\ Len(content) = 2
    /\ rec.which = 1
    /\ rec.result = "returned"
    /\ rec.data = <<TokMy, TokS>>
    /\ \E p \in Cells(cols, rows) : matrix[p].data = TokS /\ p # SecretCell(PointZero, 2)

\* C3: after hide returns (pool generated with cols x rows tokens), every cell
\* of the grid holds a Hidden Item and the grid's unfilled set is empty.
C3_FullCoverage ==
    (pc = "done" /\ Len(domain_data) = cols * rows)
    => /\ \A p \in Cells(cols, rows) : IsTessera(matrix[p]) /\ matrix[p].position = p
       /\ Len(empty) = 0

C3_Witness ==
    /\ pc = "done"
    /\ Len(domain_data) = cols * rows
    /\ Len(empty) = 0
    /\ \E p, q \in Cells(cols, rows) :
         /\ matrix[p].data = TokMy
         /\ matrix[q].data = TokX

\* C4: for every secret, the hidden items holding token i and token i+1 are in
\* distinct cells after wrap-around, and the step vector of a hidden item never
\* maps its cell onto itself modulo the grid size; during hide and after it.
C4_NoCollision ==
    /\ \A k \in 1..Len(hs.hidden) :
         /\ ~same_point(tessera_next(hs.hidden[k]), hs.hidden[k].position, cols, rows)
         /\ k < Len(hs.hidden) => hs.hidden[k].position # hs.hidden[k + 1].position
    /\ pc = "done" =>
         \A i \in 1..Len(content) : \A k \in 1..Len(content[i].data) :
            LET cell == SecretCell(content[i].origin, k)
            IN  /\ ~same_point(tessera_next(matrix[cell]), cell, cols, rows)
                /\ k < Len(content[i].data) =>
                     cell # SecretCell(content[i].origin, k + 1)

\* a finished hide whose first secret has two tokens, the step between them
\* leaving the grid and wrapping around
C4_Witness ==
    /\ pc = "done"
    /\ Len(content[1].data) = 2
    /\ SecretCell(content[1].origin, 1) # SecretCell(content[1].origin, 2)
    /\ tessera_next(matrix[SecretCell(content[1].origin, 1)]) \notin Cells(cols, rows)
    /\ matrix[SecretCell(content[1].origin, 2)].data = content[1].data[2]

\* every step-vector component of the system: the secrets' and the recoveries'
\* label sets, the fake components, the step vectors of the tesserae of the
\* grid, of the walk in progress and of the grid rebuilt from the text
ComponentsOf(items) ==
    UNION {{items[p].v2_point.x, items[p].v2_point.y} :
             p \in {q \in DOMAIN items : IsTessera(items[q])}}

AllComponents ==
    UNION {content[i].components : i \in 1..Len(content)}
    \cup UNION {recoveries[i].components : i \in 1..Len(recoveries)}
    \cup {fake_components[i] : i \in 1..Len(fake_components)}
    \cup ComponentsOf(matrix)
    \cup ComponentsOf(hs.hidden)
    \cup (IF mosaic2.built
          THEN mosaic2.recovery.components \cup ComponentsOf(mosaic2.matrix)
          ELSE {})

\* C8: every step-vector component built for a secret walk, for a decoy or
\* from the persisted text has a lowercase label exactly when its magnitude
\* is >= 0 and an uppercase label exactly when its magnitude is negative.
C8_SignLabelLaw ==
    \A comp \in AllComponents :
       /\ comp.label \in LowerLetters <=> comp.value >= 0
       /\ comp.label \in UpperLetters <=> comp.value < 0

\* a grid rebuilt from the text holding a component with a random magnitude
\* of 0 and a negative one, next to a grid with a negative fake component
C8_Witness ==
    /\ mosaic2.built
    /\ mosaic2.raised = "none"
    /\ \E comp \in ComponentsOf(mosaic2.matrix) :
         comp.value = 0 /\ in_set(comp, mosaic2.recovery.components) = None
    /\ \E comp \in ComponentsOf(mosaic2.matrix) : comp.value < 0
    /\ \E i \in 1..Len(fake_components) : fake_components[i].value < 0
    /\ \E i \in 1..Len(fake_components) : fake_components[i].value = 0

\* C1: for a vault with one secret (origin inside the grid, magnitudes
\* non-negative), after hide succeeds, the grid rebuilt from the serialized
\* text with the secret's descriptor is built without an error and recover on
\* it returns exactly the secret's tokens in order.
C1_TextRoundTrip ==
    (/\ mosaic2.built
     /\ Len(content) = 1
     /\ InsideGrid(content[1].origin)
     /\ \A comp \in content[1].components : comp.value >= 0)
    => /\ mosaic2.raised = "none"
       /\ mosaic2.recovered =>
            /\ mosaic2.result = "returned"
            /\ mosaic2.data = content[1].data

\* the same for the secrets and pools whose tokens hold no "|"
NoSeparator(tokens) ==
    \A i \in 1..Len(tokens) : \A j \in 1..Len(tokens[i]) : tokens[i][j] # "|"

TextRoundTripWithoutSeparator ==
    (/\ mosaic2.built
     /\ Len(content) = 1
     /\ NoSeparator(content[1].data)
     /\ NoSeparator(domain_data))
    => /\ mosaic2.raised = "none"
       /\ mosaic2.recovered =>
            /\ mosaic2.result = "returned"
            /\ mosaic2.data = content[1].data

-----------------------------------------------------------------------------
(* Claims about the failures of hide_secrets (checked under SpecMosaic) *)

\* the secret and the token the loops of hide_secrets are at
CurrentSecret == content[hs.index + 1]

CurrentToken == CurrentSecret.data[hs.tindex + 1]

\* the token is in the pool or some source contains it
FoundInDomain(item) ==
    \/ \E i \in 1..Len(domain_data) : domain_data[i] = item
    \/ \E i \in 1..Len(domains) : SourceContains(domains[i], item)

\* C11: when hide reaches a secret token the aggregate domain does not contain,
\* it fails with ValueException and that token is not placed in the grid;
\* a token is only taken further, and placed, when the domain contains it.
C11_ValueNotInDomain ==
    /\ (pc = "raised" /\ err = "ValueException") =>
         /\ ~FoundInDomain(CurrentToken)
         /\ Len(hs.hidden) = hs.tindex
         /\ \A p \in Cells(cols, rows) :
              IsTessera(matrix[p]) => matrix[p].data # CurrentToken
    /\ pc \in {"v2", "v2test"} => FoundInDomain(CurrentToken)
    /\ pc \in {"secret", "token", "v2", "v2test"} =>
         \A p \in Cells(cols, rows) :
            IsTessera(matrix[p]) => FoundInDomain(matrix[p].data)

\* the second token of a secret is not in the domain, the first one is placed
C11_Witness ==
    /\ pc = "raised"
    /\ err = "ValueException"
    /\ hs.tindex = 1
    /\ CurrentToken = TokBar
    /\ \E p \in Cells(cols, rows) : IsTessera(matrix[p]) /\ matrix[p].data = TokS

\* the cell the current token is to be placed in: the origin for the first
\* token, the previous item's position plus its step vector otherwise
TargetPoint ==
    IF hs.tindex = 0 THEN CurrentSecret.origin
    ELSE tessera_next(hs.hidden[Len(hs.hidden)])

\* C12: when the target cell of a secret token is already occupied, hide fails
\* with MosaicItemCollisionException and the grid is left as it was; it fails
\* like that for no other reason.
C12_PlacementCollision ==
    [][(pc = "token" /\ hs.tindex < Len(CurrentSecret.data) /\ FoundInDomain(CurrentToken))
       => IF matrix[normalize_point(TargetPoint, cols, rows)] # None
          THEN /\ pc' = "raised"
               /\ err' = "MosaicItemCollisionException"
               /\ matrix' = matrix
               /\ empty' = empty
          ELSE pc' = "v2" /\ err' = "none"]_vars

\* the origin of the second secret is the cell of a token of the first one
C12_Witness ==
    /\ pc = "raised"
    /\ err = "MosaicItemCollisionException"
    /\ hs.index = 1
    /\ hs.tindex = 0
    /\ IsTessera(matrix[normalize_point(hs.point, cols, rows)])
    /\ matrix[normalize_point(hs.point, cols, rows)].data = TokS

-----------------------------------------------------------------------------
(* Mosaic.recover_secret on its own: any grid of tesserae, as from_recovery
   builds it from a text, or the empty grid of a new Mosaic; any descriptor *)

\* the longest descriptor of the model, longer than the grids have cells
MaxLength == 5

\* the step vectors of the grids' tesserae: first and second magnitude
StepX == {0 - 1, 0}

StepY == {0, 1}

\* the token of a cell, a different one in every cell
CellLetters == <<"m", "y", "s", "x">>

CellToken(p, c) == <<CellLetters[CellIndex(p, c) + 1]>>

RecoverGrids(c, r) ==
    {NoneFillerItems(c, r)} \cup
    {[p \in Cells(c, r) |->
        Tessera(p, CellToken(p, c),
                V2Point(V2Component("a", vx[p]), V2Component("b", vy[p])))] :
        vx \in [Cells(c, r) -> StepX], vy \in [Cells(c, r) -> StepY]}

\* the descriptors of the model: origins in and around the grid
Descriptors(c, r) ==
    {Recovery("n1", Point(x, y), {V2Component("a", 1)}, c, r, length) :
        x \in RawCoords(c), y \in RawCoords(r), length \in 0..MaxLength}

RecoverInit ==
    /\ \E g \in GridSizes : cols = g[1] /\ rows = g[2]
    /\ matrix \in RecoverGrids(cols, rows)
    /\ empty = create_empty(matrix, cols, rows)
    /\ last = [op |-> "init"]
    /\ prev = [matrix |-> matrix, empty |-> empty]
    /\ nops = 0
    /\ VaultIdle
    /\ DomainIdle
    /\ MosaicQuiet
    /\ \E recovery \in Descriptors(cols, rows) :
         call = [op |-> "recover_secret", recovery |-> recovery, returned |-> FALSE]

\* mosaic.recover_secret(recovery)
RecoverSecret ==
    /\ call.op = "recover_secret"
    /\ ~call.returned
    /\ LET res == recover_secret(matrix, cols, rows, call.recovery)
       IN  call' = [op |-> "recover_secret", recovery |-> call.recovery,
                    returned |-> TRUE, result |-> res.result, data |-> res.data,
                    reads |-> res.reads]
    /\ UNCHANGED <<matrixVars, vaultVars, domainVars, mosaicVars>>

RecoverNext == RecoverSecret

SpecRecover == RecoverInit /\ [][RecoverNext]_vars

-----------------------------------------------------------------------------
(* Claims about recover_secret (checked under SpecRecover) *)

OriginInRange ==
    /\ 0 <= call.recovery.origin.x /\ call.recovery.origin.x < cols
    /\ 0 <= call.recovery.origin.y /\ call.recovery.origin.y < rows

\* C13: recover fails with ValueException exactly when the descriptor's origin
\* does not satisfy 0 <= x < cols and 0 <= y < rows; then no cell is read and
\* the descriptor's token slots are unchanged.
C13_OutOfRange ==
    (call.op = "recover_secret" /\ call.returned) =>
       /\ call.result = "ValueException" <=> ~OriginInRange
       /\ call.result = "ValueException" =>
            call.reads = 0 /\ call.data = call.recovery.data

\* x is in range, y is the number of rows
C13_Witness ==
    /\ call.op = "recover_secret"
    /\ call.returned
    /\ call.result = "ValueException"
    /\ call.recovery.origin.x = 0
    /\ call.recovery.origin.y = rows
    /\ Len(call.recovery.data) > 0
    /\ IsTessera(matrix[PointZero])

\* the cell read for token k (1-based) of the walk from the origin
RECURSIVE WalkCell(_, _)
WalkCell(origin, k) ==
    IF k = 1 THEN normalize_point(origin, cols, rows)
    ELSE LET t == matrix[WalkCell(origin, k - 1)]
         IN  normalize_point(PointAdd(t.position, to_point(t.v2_point)), cols, rows)

FullyPopulated == \A p \in Cells(cols, rows) : IsTessera(matrix[p])

\* C14: on a fully populated grid and for an in-range origin, recover returns
\* after reading exactly length cells (the origin, then each previous item's
\* position plus its step vector, wrapped) with exactly length tokens, those
\* of the cells read, also when the walk revisits cells.
C14_WalkTerminates ==
    (call.op = "recover_secret" /\ call.returned /\ FullyPopulated /\ OriginInRange) =>
       /\ call.result = "returned"
       /\ call.reads = Len(call.recovery.data)
       /\ Len(call.data) = Len(call.recovery.data)
       /\ \A k \in 1..Len(call.data) :
            call.data[k] = matrix[WalkCell(call.recovery.origin, k)].data

\* more tokens than cells, a step leaving the grid, a cell read twice
C14_Witness ==
    /\ call.op = "recover_secret"
    /\ call.returned
    /\ call.result = "returned"
    /\ Len(call.data) > cols * rows
    /\ call.reads = Len(call.data)
    /\ \E k \in 1..(Len(call.data) - 1) :
         LET t == matrix[WalkCell(call.recovery.origin, k)]
         IN  PointAdd(t.position, to_point(t.v2_point)) \notin Cells(cols, rows)
    /\ \E j, k \in 1..Len(call.data) : j # k /\ call.data[j] = call.data[k]
    /\ \E j, k \in 1..Len(call.data) : call.data[j] # call.data[k]

-----------------------------------------------------------------------------
(* matrix.py : V2Component.components_from_string on a text, character by
   character *)

RECURSIVE split_by(_, _, _)
\* str.split(sep): cur is the piece being read
split_by(t, sep, cur) ==
    IF Len(t) = 0 THEN <<cur>>
    ELSE IF Head(t) = sep THEN <<cur>> \o split_by(Tail(t), sep, <<>>)
    ELSE split_by(Tail(t), sep, Append(cur, Head(t)))

\* the digits of the model
Digits == {"1"}

\* int(s) accepts an optional sign and at least one digit
IsInt(s) ==
    LET d == IF Len(s) > 0 /\ Head(s) = "-" THEN Tail(s) ELSE s
    IN  Len(d) > 0 /\ \A i \in 1..Len(d) : d[i] \in Digits

\* abs(int(s)) for the digit 1
RECURSIVE AbsInt(_)
AbsInt(s) ==
    IF Len(s) = 0 THEN 0
    ELSE IF Head(s) = "-" THEN AbsInt(Tail(s))
    ELSE 10 * AbsInt(SubSeq(s, 1, Len(s) - 1)) + 1

\* a match of the whole label, for comparison
label_match_whole(label) == Len(label) = 1 /\ label[1] \in LetterChars

\* re.match("[a-zA-Z]{1}", label): the pattern is matched at the start of the
\* label, what follows the first character is not looked at
label_match(label) == Len(label) >= 1 /\ label[1] \in LetterChars

\* one iteration of the loop of components_from_string: the component of the
\* raw text, or the exception
component_from_raw(raw_component) ==
    LET dat == split_by(raw_component, ":", <<>>)
    IN  IF Len(dat) # 2 THEN [raised |-> "InvalidComponentException"]
        ELSE IF ~IsInt(dat[2]) THEN [raised |-> "InvalidComponentException"]
        ELSE IF ~label_match(dat[1]) THEN [raised |-> "InvalidComponentException"]
        ELSE [raised |-> "none",
              component |-> V2Component(dat[1][1], AbsInt(dat[2]))]

\* set.add with V2Component.__eq__ and __hash__: a label already in stays
components_add(components, component) ==
    IF in_set(component, components) = None
    THEN components \cup {component} ELSE components

RECURSIVE components_loop(_, _, _)
components_loop(raws, index, components) ==
    IF index > Len(raws)
    THEN [raised |-> "none", components |-> components]
    ELSE LET one == component_from_raw(raws[index])
         IN  IF one.raised # "none"
             THEN [raised |-> one.raised, components |-> {}]
             ELSE components_loop(raws, index + 1,
                                  components_add(components, one.component))

parse_components(t) == components_loop(split_by(t, " ", <<>>), 1, {})

\* the texts of the model: one raw component of up to MaxRaw characters,
\* alone or followed by a blank and a second one
MaxRaw == 4

RawChars == {"a", "B", "1", ":", "-"}

RawComponents == UNION {[1..n -> RawChars] : n \in 0..MaxRaw}

SecondComponents == {<<"a", ":", "1">>, <<"B", ":", "1", "1">>, <<"a">>, <<>>}

ComponentTexts ==
    RawComponents \cup
    {first \o <<" ">> \o second : first \in RawComponents, second \in SecondComponents}

ComponentsInit ==
    /\ MatrixIdle
    /\ VaultIdle
    /\ DomainIdle
    /\ MosaicQuiet
    /\ \E t \in ComponentTexts :
         call = [op |-> "components_from_string", text |-> t, returned |-> FALSE]

\* V2Component.components_from_string(text)
ComponentsFromString ==
    /\ call.op = "components_from_string"
    /\ ~call.returned
    /\ LET res == parse_components(call.text)
       IN  call' = [op |-> "components_from_string", text |-> call.text,
                    returned |-> TRUE, raised |-> res.raised,
                    components |-> res.components]
    /\ UNCHANGED <<matrixVars, vaultVars, domainVars, mosaicVars>>

ComponentsNext == ComponentsFromString

SpecComponents == ComponentsInit /\ [][ComponentsNext]_vars

-----------------------------------------------------------------------------
(* Claims about components_from_string (checked under SpecComponents) *)

\* a single letter, ':' and an integer
WellFormedRaw(raw) ==
    /\ Len(raw) >= 3
    /\ raw[1] \in LetterChars
    /\ raw[2] = ":"
    /\ IsInt(SubSeq(raw, 3, Len(raw)))

WellFormedText(t) ==
    LET raws == split_by(t, " ", <<>>)
    IN  \A i \in 1..Len(raws) : WellFormedRaw(raws[i])

\* C16: parsing a label-set text fails with InvalidComponentException whenever
\* some blank-separated token is not a single letter, ':' and an integer, and
\* succeeds only when every token is.
C16_InvalidComponent ==
    (call.op = "components_from_string" /\ call.returned) =>
       (call.raised = "InvalidComponentException" <=> ~WellFormedText(call.text))

-----------------------------------------------------------------------------
(* Tessera.init_for_recovery on its own: any field of the text, any label set *)

\* the last two characters of the fields of the model
FieldChars == LowerLetters \cup UpperLetters \cup {"1"}

\* the fields of the model: a token, then up to two characters
Fields ==
    {token \o tail : token \in {<<>>, TokS, TokMy},
                     tail \in UNION {[1..n -> FieldChars] : n \in 0..2}}

\* the label sets of the model
LabelSets ==
    {{}, {V2Component("a", 1)}, {V2Component("b", 0)},
     {V2Component("a", 1), V2Component("b", 2)},
     {V2Component("a", 0 - 1), V2Component("b", 2)}}

FieldInit ==
    /\ MatrixIdle
    /\ VaultIdle
    /\ DomainIdle
    /\ MosaicQuiet
    /\ \E field \in Fields, components \in LabelSets, point \in Cells(2, 1) :
         call = [op |-> "init_for_recovery", point |-> point, field |-> field,
                 components |-> components, returned |-> FALSE]

\* Tessera.init_for_recovery(point, data, components)
InitForRecovery ==
    /\ call.op = "init_for_recovery"
    /\ ~call.returned
    /\ \E outcome \in init_for_recovery(call.point, call.field, call.components) :
         call' = [call EXCEPT !.returned = TRUE] @@ [outcome |-> outcome]
    /\ UNCHANGED <<matrixVars, vaultVars, domainVars, mosaicVars>>

FieldNext == InitForRecovery

SpecField == FieldInit /\ [][FieldNext]_vars

-----------------------------------------------------------------------------
(* Claims about init_for_recovery (checked under SpecField) *)

LabelLetters == LowerLetters \cup UpperLetters

Magnitude(v) == IF v < 0 THEN 0 - v ELSE v

\* the component built for the label: the label up to case, the magnitude of
\* the authorized component of that label, or one out of randbelow
ComponentFor(comp, label, components, randbelow) ==
    /\ ToLower(comp.label) = ToLower(label)
    /\ IF \E c \in components : ToLower(c.label) = ToLower(label)
       THEN \E c \in components :
              ToLower(c.label) = ToLower(label) /\ Magnitude(comp.value) = Magnitude(c.value)
       ELSE Magnitude(comp.value) \in randbelow

\* C15: building a cell from a field whose two last characters are letters
\* never raises, whether or not the labels are authorized; an unauthorized
\* label gets a random magnitude and the cell holds the field's token.
C15_UnauthorizedLabel ==
    (/\ call.op = "init_for_recovery"
     /\ call.returned
     /\ Len(call.field) >= 2
     /\ call.field[Len(call.field) - 1] \in LabelLetters
     /\ call.field[Len(call.field)] \in LabelLetters)
    => /\ IsTessera(call.outcome)
       /\ call.outcome.data = SubSeq(call.field, 1, Len(call.field) - 2)
       /\ call.outcome.position = call.point
       /\ ComponentFor(call.outcome.v2_point.x, call.field[Len(call.field) - 1],
                       call.components, 0..(PlaceholderMax - 1))
       /\ ComponentFor(call.outcome.v2_point.y, call.field[Len(call.field)],
                       call.components, 0..PlaceholderMax)

\* a field with one authorized and one unauthorized label
C15_Witness ==
    /\ call.op = "init_for_recovery"
    /\ call.returned
    /\ call.field = <<"m", "y", "a", "B">>
    /\ call.components = {V2Component("a", 1)}
    /\ IsTessera(call.outcome)
    /\ call.outcome.data = TokMy
    /\ call.outcome.v2_point.x.value = 1
    /\ call.outcome.v2_point.y = V2Component("B", 0 - 1)

-----------------------------------------------------------------------------
(* Claims about the recovery list of hide_secrets (checked under SpecMosaic) *)

\* C17: once hide_secrets has gone through the whole vault, the recovery list
\* has one descriptor per secret, in the order of the vault, the k-th with the
\* k-th secret's name, origin and components, the cols and rows of the grid
\* and as many data slots as the secret has tokens.
C17_RecoveryList ==
    pc \in {"fill", "done"}
    => /\ Len(recoveries) = Len(content)
       /\ \A k \in 1..Len(content) :
            /\ recoveries[k].name = content[k].name
            /\ recoveries[k].origin = content[k].origin
            /\ recoveries[k].components = content[k].components
            /\ recoveries[k].cols = cols
            /\ recoveries[k].rows = rows
            /\ Len(recoveries[k].data) = Len(content[k].data)

\* hide_secrets has returned for the vault of two secrets
C17_Witness ==
    /\ pc = "done"
    /\ Len(content) = 2
    /\ Len(recoveries) = 2
    /\ recoveries[2].name = "n2"
    /\ Len(recoveries[1].data) = 2
    /\ Len(recoveries[2].data) = 1

-----------------------------------------------------------------------------
(* Claims about failures while a Mosaic is built from its text (SpecMosaic) *)

\* the fields of the text that RecoveryFiller.__setup_matrix reads, by index
FieldOf(index) == split(text)[index + 1]

\* building the item of the field at index raises
FieldFails(index) ==
    /\ index < Len(split(text))
    /\ \E o \in init_for_recovery(Point(index % mosaic2.cols, index \div mosaic2.cols),
                                  FieldOf(index), mosaic2.recovery.components) :
         "raised" \in DOMAIN o

\* C18: when the item of some field of the text cannot be built, from_recovery
\* raises; it never returns a grid whose cell holds an item built from
\* another field.
C18_NoSwallowedFailure ==
    (/\ mosaic2.built
     /\ \E index \in 0..(mosaic2.cols * mosaic2.rows - 1) : FieldFails(index))
    => mosaic2.raised # "none"

-----------------------------------------------------------------------------
(* Claims about the recovery list when hide_secrets fails (SpecMosaic) *)

\* C20: the Recovery of a secret is appended only once all its tokens are
\* placed: when hide_secrets raises while it places the tokens of a secret,
\* the recovery list holds the descriptors of the secrets before it only.
C20_RecoveryAfterTokens ==
    (pc = "raised" /\ err \in {"ValueException", "MosaicItemCollisionException"})
    => /\ Len(recoveries) = hs.index
       /\ \A k \in 1..Len(recoveries) : recoveries[k].name # CurrentSecret.name

-----------------------------------------------------------------------------
(* hide_secrets alone, under fair sampling *)

HideNext ==
    \/ HideStart
    \/ HideSecret
    \/ HideToken
    \/ \E v2_point \in AllV2Points : V2Draw(v2_point)
    \/ V2Reject
    \/ V2Accept
    \/ HideSecretDone
    \/ HideFillStart
    \/ FillStep
    \/ HideReturn

\* a vault of one secret of two tokens with the components a:1, on either grid
HideFairInit ==
    /\ MosaicInit
    /\ content = <<SecretBar>>

\* the call goes on while it can (weak fairness of the steps), and a loop of
\* __v2_point that goes round for ever draws every candidate again and again
\* (strong fairness of the draw of each candidate)
SpecHideFair ==
    /\ HideFairInit
    /\ [][HideNext]_vars
    /\ WF_vars(HideNext)
    /\ \A v2_point \in Candidates(SecretBar, 0, RandBound) : SF_vars(V2Draw(v2_point))

\* C19: every call of hide_secrets ends: it returns or raises; the loop of
\* __v2_point exits for every token it is entered for.
C19_HideTerminates == <>(pc \in {"done", "raised"})

-----------------------------------------------------------------------------
(* Claims about the grid a failed hide_secrets leaves (SpecMosaic) *)

RECURSIVE TokensBefore(_)
\* the number of tokens of the first k secrets of the vault
TokensBefore(k) == IF k = 0 THEN 0 ELSE TokensBefore(k - 1) + Len(content[k].data)

\* the cells that hold an item
FilledCells == {p \in Cells(cols, rows) : matrix[p] # None}

\* the number of tokens hide_secrets had placed when it raised
PlacedAtFailure ==
    IF err = "IndexError" THEN TokensBefore(Len(content))
    ELSE TokensBefore(hs.index) + hs.tindex

\* C21: when hide_secrets raises, the items placed so far are still in their
\* cells, nothing is rolled back and no decoy is written: the cells that hold
\* an item are the cells of the tokens placed, every other cell is unfilled.
C21_FailureLeavesGrid ==
    pc = "raised"
    => /\ \A i \in 1..Len(hs.hidden) : matrix[hs.hidden[i].position] = hs.hidden[i]
       /\ Cardinality(FilledCells) = PlacedAtFailure
       /\ \A p \in FilledCells :
            \E k \in 1..Len(content) : InList(matrix[p].data, content[k].data)
       /\ \A p \in Cells(cols, rows) : matrix[p] = None <=> InList(p, empty)
       /\ fake_components = <<>>

\* the second secret collides with the items of the first one, both still there
C21_Witness ==
    /\ pc = "raised"
    /\ err = "MosaicItemCollisionException"
    /\ hs.index = 1
    /\ Cardinality(FilledCells) = 2
    /\ matrix[Point(0, 0)] # None
    /\ matrix[Point(0, 0)].data = TokMy

-----------------------------------------------------------------------------
(* hide_secrets over a dictionary: the pool holds different tokens *)

FillSource == DictionaryDomain(<<TokMy, TokS>>)

\* pools generate_domain(total_items) can draw from the dictionary, for
\* total_items = 2 and total_items = n
FillPools(n) ==
    {[i \in 1..k |-> IF i % 2 = 1 THEN TokMy ELSE TokS] : k \in {2, n}}

FillInit ==
    /\ \E g \in GridSizes : cols = g[1] /\ rows = g[2]
    /\ matrix = NoneFillerItems(cols, rows)
    /\ empty = create_empty(matrix, cols, rows)
    /\ last = [op |-> "init"]
    /\ prev = [matrix |-> matrix, empty |-> empty]
    /\ nops = 0
    /\ content = <<SecretMyS>>
    /\ vlast = [op |-> "init"]
    /\ vprev = <<>>
    /\ domains = <<FillSource>>
    /\ domain_data \in FillPools(cols * rows)
    /\ gen = [pc |-> "idle", ran |-> TRUE, total |-> Len(domain_data), index |-> 1,
              sources |-> 1, before |-> 0]
    /\ MosaicIdle

SpecFill == FillInit /\ [][HideNext]_vars

-----------------------------------------------------------------------------
(* Claims about __complete_with_fake_data (checked under SpecFill) *)

\* the decoys written so far: the filled cells that hold no token of a secret
DecoysWritten == Cardinality(FilledCells) - TokensBefore(Len(content))

\* the cell the double loop is at
FillPoint == CellAt(hs.fill_index, cols)

\* C22: the pool is consumed in its order: the j-th decoy written gets the
\* j-th token of the pool while j is below the length of the pool, and a
\* random token of the pool after that.
C22_PoolOrder ==
    [][(/\ pc = "fill"
        /\ hs.fill_index < cols * rows
        /\ matrix[FillPoint] = None
        /\ pc' = "fill")
       => /\ matrix'[FillPoint] # None
          /\ IF DecoysWritten < Len(domain_data)
             THEN matrix'[FillPoint].data = domain_data[DecoysWritten + 1]
             ELSE InList(matrix'[FillPoint].data, domain_data)]_vars

-----------------------------------------------------------------------------
(* Claims about the step vectors of the decoys (checked under SpecMosaic) *)

\* the V2Points V2Point.random_fake can return in this state: from any list
\* __init_fake_components can build when the class's list is empty, from the
\* class's list otherwise
FakeDraws ==
    UNION {random_fake(cache) :
             cache \in (IF Len(fake_components) = 0
                        THEN FakeCaches ELSE {fake_components})}

\* C23: the signs of a decoy's step vector are random for every decoy: for
\* each cell the fill is about to write, each letter can come out lowercase
\* and can come out uppercase, whatever the decoys written before.
C23_IndependentSigns ==
    (/\ pc = "fill"
     /\ hs.fill_index < cols * rows
     /\ matrix[FillPoint] = None
     /\ Len(domain_data) > 0)
    => \A i \in 1..Len(LetterSeq) :
         /\ \E v2_point \in FakeDraws : v2_point.x.label = LetterSeq[i]
         /\ \E v2_point \in FakeDraws : v2_point.x.label = ToUpper(LetterSeq[i])
         /\ \E v2_point \in FakeDraws : v2_point.y.label = LetterSeq[i]
         /\ \E v2_point \in FakeDraws : v2_point.y.label = ToUpper(LetterSeq[i])

-----------------------------------------------------------------------------
(* Claims about authorized labels in init_for_recovery (SpecField) *)

\* the component built for an authorized label keeps the case of the label
\* and has the authorized magnitude with the sign of that case
AuthorizedFor(comp, label, components) ==
    \A c \in components :
       ToLower(c.label) = ToLower(label)
       => /\ comp.label = label
          /\ comp.value = IF label \in LowerLetters THEN Magnitude(c.value)
                          ELSE 0 - Magnitude(c.value)

\* C24: a label of the field that is in the authorized set keeps its case in
\* the component built, and the value is the authorized magnitude with the
\* sign of the case: not negative for lowercase, not positive for uppercase,
\* whatever the sign of the magnitude stored in the set.
C24_AuthorizedLabel ==
    (/\ call.op = "init_for_recovery"
     /\ call.returned
     /\ IsTessera(call.outcome))
    => /\ AuthorizedFor(call.outcome.v2_point.x, call.field[Len(call.field) - 1],
                        call.components)
       /\ AuthorizedFor(call.outcome.v2_point.y, call.field[Len(call.field)],
                        call.components)

-----------------------------------------------------------------------------
(* A Mosaic of one column: a secret that holds the separator in its second
   token, alone or followed by a secret whose origin is outside the grid, or
   that second secret alone; hide_secrets, the text, the Mosaic built from it,
   recover_secret *)

\* three tokens, the second one with the field separator, the one component b:2
SecretBar3 ==
    Secret("n4", "list", <<TokS, TokBar, TokMy>>, Point(0, 0), {V2Component("b", 2)})

\* rows of the grid of one column
BarRows == 5

BarInit ==
    /\ cols = 1
    /\ rows = BarRows
    /\ matrix = NoneFillerItems(cols, rows)
    /\ empty = create_empty(matrix, cols, rows)
    /\ last = [op |-> "init"]
    /\ prev = [matrix |-> matrix, empty |-> empty]
    /\ nops = 0
    /\ content \in {<<SecretBar3>>, <<SecretBar3, SecretS>>, <<SecretS>>}
    /\ vlast = [op |-> "init"]
    /\ vprev = <<>>
    /\ domains = <<RegexDomain("any")>>
    /\ domain_data = [i \in 1..(cols * rows) |-> TokX]
    /\ gen = [pc |-> "idle", ran |-> TRUE, total |-> Len(domain_data), index |-> 1,
              sources |-> 1, before |-> 0]
    /\ MosaicIdle

SpecBar == BarInit /\ [][MosaicNext]_vars

-----------------------------------------------------------------------------
(* Claims about the placeholder magnitudes (checked under SpecBar) *)

\* the grids Mosaic.from_recovery can build from the text with the recovery
\* of the i-th secret, one for each choice of the random magnitudes
Reconstructions(i) ==
    LET recovery == create_from_file(recoveries[i])
    IN  {[p \in Cells(recovery.cols, recovery.rows) |->
            filler.items[CellIndex(p, recovery.cols) + 1]] :
         filler \in {f \in setup_matrix(split(text), recovery.cols, recovery.rows,
                                        recovery.components, 0, <<>>) :
                       f.raised = "none"}}

\* recover_secret on a grid built from the text
RecoveredFrom(mx, i) ==
    recover_secret(mx, cols, rows, create_from_file(recoveries[i]))

\* C25: the random magnitudes given to unauthorized labels do not reach the
\* recovery: any two grids built from the text of a hide that returned, with
\* the recovery of a secret, give the same tokens.
C25_PlaceholderIndependence ==
    (pc = "done" /\ Len(text) > 0)
    => \A i \in 1..Len(recoveries) :
         \A mx1, mx2 \in Reconstructions(i) :
            RecoveredFrom(mx1, i).data = RecoveredFrom(mx2, i).data

-----------------------------------------------------------------------------
(* data_domain.py : DictionaryDomain.random on its own *)

\* `valid is []` compares the identity of valid with a list just created: it
\* is False for every list, the empty one included
is_new_list(valid) == FALSE

\* the entries a cap keeps: 0 < len(item) <= max_length, in the order of _data
RECURSIVE capped(_, _)
capped(dat, max_length) ==
    IF Len(dat) = 0 THEN <<>>
    ELSE IF 0 < Len(Head(dat)) /\ Len(Head(dat)) <= max_length
         THEN <<Head(dat)>> \o capped(Tail(dat), max_length)
         ELSE capped(Tail(dat), max_length)

\* random.choices(valid, k=count): every list of count entries of valid; an
\* empty population raises IndexError when an entry is asked for
choices(valid, count) ==
    IF Len(valid) = 0 /\ count > 0
    THEN {[raised |-> "IndexError"]}
    ELSE {[raised |-> "none", items |-> items] :
            items \in [1..count -> {valid[i] : i \in 1..Len(valid)}]}

\* DictionaryDomain.random(count, max_length): every outcome
dictionary_random(dat, count, max_length) ==
    LET valid == IF max_length > 0 THEN capped(dat, max_length) ELSE dat
    IN  IF max_length > 0 /\ is_new_list(valid)
        THEN {[raised |-> "ValueException"]}
        ELSE choices(valid, count)

\* the entries of the dictionaries of the model: lines of 0 to 3 characters
DictEntries == {<<>>, TokS, TokMy, <<"m", "y", "s">>}

MaxWords == 2
MaxCount == 2
MaxCap == 2

\* the dictionaries of the model: the lines of a file, one at least as
\* str.split returns
Dictionaries == UNION {[1..n -> DictEntries] : n \in 1..MaxWords}

DictInit ==
    /\ MatrixIdle
    /\ VaultIdle
    /\ DomainIdle
    /\ MosaicQuiet
    /\ \E dat \in Dictionaries, count \in 1..MaxCount, max_length \in 0..MaxCap :
         call = [op |-> "random", data |-> dat, count |-> count,
                 max_length |-> max_length, returned |-> FALSE]

\* DictionaryDomain.random(count, max_length)
DictionaryRandom ==
    /\ call.op = "random"
    /\ ~call.returned
    /\ \E outcome \in dictionary_random(call.data, call.count, call.max_length) :
         call' = [call EXCEPT !.returned = TRUE] @@ [outcome |-> outcome]
    /\ UNCHANGED <<matrixVars, vaultVars, domainVars, mosaicVars>>

DictNext == DictionaryRandom

SpecDict == DictInit /\ [][DictNext]_vars

-----------------------------------------------------------------------------
(* Claims about DictionaryDomain.random (checked under SpecDict) *)

\* some entry of the dictionary has a length between 1 and max_length
SomeEntryFits(dat, max_length) ==
    \E i \in 1..Len(dat) : 0 < Len(dat[i]) /\ Len(dat[i]) <= max_length

\* C26: with max_length > 0, random fails with ValueException when no entry of
\* the dictionary has a length between 1 and max_length; otherwise it returns
\* count entries, each of length max_length at most.
C26_DictionaryRandom ==
    (call.op = "random" /\ call.returned /\ call.max_length > 0)
    => IF ~SomeEntryFits(call.data, call.max_length)
       THEN call.outcome.raised = "ValueException"
       ELSE /\ call.outcome.raised = "none"
            /\ Len(call.outcome.items) = call.count
            /\ \A i \in 1..call.count :
                 /\ InList(call.outcome.items[i], call.data)
                 /\ Len(call.outcome.items[i]) <= call.max_length

-----------------------------------------------------------------------------
(* Claims about collisions inside one secret (checked under SpecBar) *)

\* C27: on a grid that starts empty, MosaicItemCollisionException is raised
\* for the first token of a secret only: when a later token is reached, the
\* cell it goes to is unoccupied, as it was when the step to it was accepted.
C27_CollisionFirstTokenOnly ==
    /\ (pc = "raised" /\ err = "MosaicItemCollisionException") => hs.tindex = 0
    /\ (pc = "token" /\ 1 <= hs.tindex /\ hs.tindex < Len(CurrentSecret.data))
       => ~occupied(matrix, TargetPoint, cols, rows)

\* the three tokens of the first secret are placed, the first token of the
\* second secret finds its origin cell occupied
C27_Witness ==
    /\ pc = "raised"
    /\ err = "MosaicItemCollisionException"
    /\ hs.index = 1
    /\ hs.tindex = 0
    /\ Cardinality(FilledCells) = 3
    /\ occupied(matrix, content[2].origin, cols, rows)

-----------------------------------------------------------------------------
(* Claims about the cells of the hidden items (checked under SpecMosaic) *)

\* the secret tokens of the vault, by secret and index
SecretTokens ==
    UNION {{<<i, k>> : k \in 1..Len(content[i].data)} : i \in 1..Len(content)}

\* a filled cell keeps its item
FilledCellsKept ==
    \A p \in Cells(cols, rows) : matrix[p] # None => matrix'[p] = matrix[p]

\* as many cells are filled as tokens are placed
OneCellPerToken ==
    /\ pc \in {"secret", "token", "v2", "v2test"}
       => Cardinality(FilledCells) = TokensBefore(hs.index) + hs.tindex
    /\ pc = "done"
       => \A s, t \in SecretTokens :
            s # t => SecretCell(content[s[1]].origin, s[2])
                     # SecretCell(content[t[1]].origin, t[2])

\* C28: a cell that holds an item keeps it for the rest of hide_secrets: the
\* later tokens, the later secrets and the fill write to unfilled cells only,
\* and the hidden items of all the secrets are in different cells.
C28_PlacedItemsStay ==
    [][FilledCellsKept /\ OneCellPerToken /\ OneCellPerToken']_vars

\* hide_secrets has returned for two secrets on a grid the fill completed
C28_Witness ==
    /\ pc = "done"
    /\ Len(content) = 2
    /\ Len(empty) = 0
    /\ matrix[SecretCell(content[1].origin, 2)].data = TokS
    /\ matrix[SecretCell(content[2].origin, 1)].data = TokS
    /\ \E p \in Cells(cols, rows) : matrix[p].data = TokX

-----------------------------------------------------------------------------
(* Claims about the origin of the recoveries (checked under SpecBar) *)

\* C29: every Recovery of a hide_secrets that returned is accepted by
\* recover_secret on that grid: its origin is inside the grid.
C29_RecoveryOriginInside ==
    /\ pc = "done" => \A i \in 1..Len(recoveries) : InsideGrid(recoveries[i].origin)
    /\ (pc = "done" /\ rec.called) => rec.result # "ValueException"

-----------------------------------------------------------------------------
(* Claims about the text of the rebuilt Mosaic (checked under SpecMosaic) *)

\* C30: a Mosaic built from a text whose tokens hold no "|" serializes to
\* that text again: every cell keeps its token and both labels in their
\* letter case, the labels outside the recovery's components included.
C30_TextRoundTrip ==
    (/\ mosaic2.built
     /\ mosaic2.raised = "none"
     /\ \A i \in 1..Len(content) : NoSeparator(content[i].data)
     /\ NoSeparator(domain_data))
    => matrix_str(mosaic2.matrix, mosaic2.cols, mosaic2.rows) = text

=============================================================================
